---------------------------- MODULE Spec2Model ----------------------------
(***************************************************************************)
(* kplex tcp.c: the persistent TCP client interface.  One Shared record    *)
(* (struct if_tcp_shared) is used by the reader thread "R" (do_read ->     *)
(* read_tcp) and the writer thread "W" (write_tcp) of a bidirectional      *)
(* interface, or by the single thread of an IN or OUT interface.           *)
(***************************************************************************)
EXTENDS Integers, FiniteSets, Sequences, TLC

VARIABLES
    mode,       \* ifa->direction as configured: "both", "in" or "out"
    deferred,   \* TRUE: init_tcp's connect failed under F_IPERSIST
    pc,         \* each thread's position in its code
    fd,         \* each sibling's ift->fd
    iofd,       \* the descriptor each thread passed to its last read/writev
    inflight,   \* threads inside a read/writev entered on an open socket: the
                \* call keeps its socket when the descriptor is closed
    nread,      \* read_tcp's nread (1 stands for any n > 0)
    done,       \* write_tcp's done
    err,        \* write_tcp's err (errno of the failed writev)
    rv,         \* each thread's last do_connect return value
    ret,        \* where each thread's do_connect returns to
    critical,   \* shared->critical
    fixing,     \* shared->fixing
    fixer,      \* the thread that executed fixing++ and has not yet reset it
    mutex,      \* owner of shared->t_mutex, or "free"
    woken,      \* threads signalled on shared->fv that have not yet resumed
    nextfd,     \* the next descriptor socket() hands out
    open,       \* descriptors that are open sockets
    shut,       \* descriptors on which shutdown(SHUT_RDWR) was called
    donewith,   \* shared->donewith
    frees,      \* how many times free(ift->shared) has run
    cleaned,    \* threads whose cleanup_tcp has run
    dead,       \* threads whose fd a failed recovery has set to -1
    resumed,    \* threads released from their wait on fv, before their next I/O
    persist,    \* F_PERSIST: ift->shared is allocated (NULL otherwise)
    val,        \* the preamble option's value, a string of bytes
    parsed,     \* TRUE once init_tcp has passed val to parse_preamble
    preamble,   \* parse_preamble's result (shared->preamble), or NULL
    pre,        \* do_preamble on the newest socket: "none", "due" (connected,
                \* not yet called), "sent", "bad" or "failed"
    nb,         \* O_NONBLOCK is set on the descriptor the reader's fd names
    backlog,    \* the queue holds messages from before the writer's reconnect
    sptr,       \* the message write_tcp holds: "msg", or "null"
    got,        \* in recovery: what reread's non-blocking read delivered, or 0
    rerrno,     \* in recovery: errno of reread's read: "NONE", "EAGAIN", "OTHER"
    writes,     \* init_tcp's option check: what do_preamble's write calls returned
    wire,       \* init_tcp's option check: the bytes those writes put on the socket
    srv         \* a server interface: tcp_server's position (pc), ifa->direction,
                \* the running peer threads (peers), accept's result (afd),
                \* new_tcp_conn's result (newifa), and how many accepts have
                \* failed (afails) and peer threads have ended (pexits)

vars == << mode, deferred, pc, fd, iofd, inflight, nread, done, err, rv, ret, critical,
           fixing, fixer, mutex, woken, nextfd, open, shut, donewith, frees, cleaned,
           dead, resumed, persist, val, parsed, preamble, pre, nb, backlog,
           sptr, got, rerrno, writes, wire, srv >>

\* The most sockets socket() hands out in all; beyond it socket() fails.
MaxSock == 2

Threads == {"R", "W"}

Other(t) == IF t = "R" THEN "W" ELSE "R"

\* ifa->pair is set (by ifdup) only on a bidirectional interface.
HasPair == mode = "both"

\* The threads the host starts for the interface.
Started(t) == (mode = "both") \/ (mode = "in" /\ t = "R") \/ (mode = "out" /\ t = "W")

\* Descriptor values: -1, a number that is not an open socket, or a socket.
NoFd == -1

Stale == 0

\* Positions at which a thread is blocked in pthread_cond_wait on fv.
WaitPcs == {"r_waitfix", "r_waitsib", "w_waitfix", "w_waitsib"}

\* pthread_cond_signal by t: a sibling blocked on fv becomes runnable.
\* pthread_cond_wait returns only after such a signal: wakeups without a
\* signal are not modelled.
cond_signal(t) == woken \cup {s \in Threads \ {t} : pc[s] \in WaitPcs}

\* pthread_mutex_unlock by the owner.
mutex_unlock(t) == IF mutex = t THEN "free" ELSE mutex

\* init_tcp sets donewith to 1; ifdup_tcp resets it on the shared record.
init_donewith == 1

ifdup_tcp_keep(d) == d

ifdup_tcp(d) == 0

-----------------------------------------------------------------------------
(* parse_preamble: strings are sequences of byte values 1..255, ended by   *)
(* an implicit NUL                                                         *)

\* The size of prebuf.
MAXPREAMBLE == 3

\* No preamble: parse_preamble's NULL, and shared->preamble when not set.
NULL == [ok |-> FALSE, len |-> 0, string |-> << >>]

\* '\\'
Backslash == 92

\* *optr at index optr of val; the terminating NUL past the end.
At(s, optr) == IF optr <= Len(s) THEN s[optr] ELSE 0

\* Lines 676-683 with every hex digit taken for a lower-case one.
hexval_lower(c) ==
    IF c >= 48 /\ c <= 57 THEN c - 48
    ELSE IF c >= 97 /\ c <= 102 THEN c - 97 + 10
    ELSE IF c >= 65 /\ c <= 70 THEN c - 97 + 10
    ELSE -1

\* Lines 676-683: what a hex digit adds to tval; -1 when c is none.
hexval(c) ==
    IF c >= 48 /\ c <= 57 THEN c - 48
    ELSE IF c >= 97 /\ c <= 102 THEN c - 97 + 10
    ELSE IF c >= 65 /\ c <= 70 THEN c - 65 + 10
    ELSE -1

\* Lines 672-687, optr at the 'x': two hex digits give one byte, and optr
\* is left on the second digit.
parse_hex(s, optr) ==
    LET h1 == hexval(At(s, optr + 1))
        h2 == hexval(At(s, optr + 2))
    IN  IF h1 < 0 \/ h2 < 0
        THEN [ok |-> FALSE, byte |-> 0, optr |-> optr]
        ELSE [ok |-> TRUE, byte |-> (h1 * 16 + h2) % 256, optr |-> optr + 2]

\* Line 705: the value three octal digits may have.
octal_fits(tval) == tval < 512

\* Lines 690-710, optr at the character after the backslash: three octal
\* digits give (unsigned char) tval; a character that is no octal digit
\* stands for itself.
parse_octal(s, optr) ==
    LET d1 == At(s, optr)
        d2 == At(s, optr + 1)
        d3 == At(s, optr + 2)
        isoct(c) == c >= 48 /\ c <= 55
        tval == ((d1 - 48) * 8 + (d2 - 48)) * 8 + (d3 - 48)
    IN  IF ~isoct(d1)
        THEN [ok |-> TRUE, byte |-> d1, optr |-> optr]
        ELSE IF ~isoct(d2) \/ ~isoct(d3) \/ ~octal_fits(tval)
        THEN [ok |-> FALSE, byte |-> 0, optr |-> optr]
        ELSE [ok |-> TRUE, byte |-> tval % 256, optr |-> optr + 2]

\* Lines 641-712, optr at the character after the backslash.
parse_escape(s, optr) ==
    LET c == At(s, optr)
        one(b) == [ok |-> TRUE, byte |-> b, optr |-> optr]
    IN  CASE c = 97 -> one(7)
          [] c = 98 -> one(8)
          [] c = 102 -> one(12)
          [] c = 110 -> one(10)
          [] c = 114 -> one(13)
          [] c = 116 -> one(9)
          [] c = 118 -> one(11)
          [] c = 39 -> one(39)
          [] c = 34 -> one(34)
          [] c = 63 -> one(63)
          [] c = 120 -> parse_hex(s, optr)
          [] c = 0 -> [ok |-> FALSE, byte |-> 0, optr |-> optr]
          [] OTHER -> parse_octal(s, optr)

\* Line 713: a byte that is no backslash is copied, kept to seven bits.
copy_byte_ascii(c) == c % 128

\* Line 713: a byte that is no backslash is copied.
copy_byte(c) == c

\* Lines 639-714: the loop, one decoded byte per pass, while *optr is not
\* NUL and count (the length of prebuf's contents) is below the cap.
RECURSIVE parse_loop(_, _, _, _)
parse_loop(s, optr, prebuf, cap) ==
    IF At(s, optr) = 0 \/ Len(prebuf) >= cap
    THEN [ok |-> TRUE, prebuf |-> prebuf]
    ELSE IF s[optr] = Backslash
    THEN LET e == parse_escape(s, optr + 1)
         IN  IF e.ok
             THEN parse_loop(s, e.optr + 1, Append(prebuf, e.byte), cap)
             ELSE [ok |-> FALSE, prebuf |-> << >>]
    ELSE parse_loop(s, optr + 1, Append(prebuf, copy_byte(s[optr])), cap)

\* Line 715 with the test one byte further on.
too_long_above(count, cap) == count > cap

\* Line 715: count == MAXPREAMBLE.
too_long(count, cap) == count = cap

\* parse_preamble with a prebuf of cap bytes: lines 639-736.
parse_with_cap(s, cap) ==
    LET r == parse_loop(s, 1, << >>, cap)
    IN  IF ~r.ok \/ too_long(Len(r.prebuf), cap)
        THEN NULL
        ELSE [ok |-> TRUE, len |-> Len(r.prebuf), string |-> r.prebuf]

parse_preamble(s) == parse_with_cap(s, MAXPREAMBLE)

\* do_preamble, lines 87-90: the bytes put on the descriptor when the
\* successive write calls return ns: every write starts at string[0].
RECURSIVE do_preamble(_, _, _)
do_preamble(p, towrite, ns) ==
    IF towrite = 0 \/ ns = << >> \/ Head(ns) < 0
    THEN << >>
    ELSE SubSeq(p.string, 1, Head(ns))
            \o do_preamble(p, towrite - Head(ns), Tail(ns))

\* do_preamble's outcome: "failed" when a write returned -1 (do_preamble
\* returns -1); else "sent" when the bytes written are the preamble and
\* "bad" when they are not.
do_preamble_status(p, ns) ==
    IF ns # << >> /\ ns[Len(ns)] < 0 THEN "failed"
    ELSE IF do_preamble(p, p.len, ns) = p.string THEN "sent"
    ELSE "bad"

\* What the write calls of one do_preamble may return: each accepts from 1
\* to towrite bytes, or fails with -1.
RECURSIVE WriteRuns(_)
WriteRuns(towrite) ==
    IF towrite = 0
    THEN {<< >>}
    ELSE {<< -1 >>} \cup
         UNION {{<< n >> \o r : r \in WriteRuns(towrite - n)} : n \in 1..towrite}

\* The preamble option of the interface: "\n?".
PreambleOption == << 92, 110, 63 >>

\* The interface is a client: there is no acceptor.
NoServer ==
    [pc |-> "none", direction |-> "NONE", peers |-> 0, afd |-> -1,
     newifa |-> "null", afails |-> 0, pexits |-> 0]

\* init_tcp has returned the interface.  persist: F_PERSIST; d: the connect
\* failed under F_IPERSIST, leaving f in ift->fd; cfg: a preamble option was
\* given; ns: what the write calls of init_tcp's do_preamble returned.
init_tcp(m, ps, d, f, cfg, ns) ==
    /\ mode = m
    /\ persist = ps
    /\ deferred = d
    /\ pc = [t \in Threads |-> IF Started(t) THEN "start" ELSE "none"]
    /\ fd = [t \in Threads |-> f]
    /\ iofd = [t \in Threads |-> NoFd]
    /\ inflight = {}
    /\ nread = 0
    /\ done = FALSE
    /\ err = "NONE"
    /\ rv = [t \in Threads |-> 0]
    /\ ret = [t \in Threads |-> "none"]
    /\ critical = 0
    /\ fixing = 0
    /\ fixer = "none"
    /\ mutex = "free"
    /\ woken = {}
    /\ nextfd = IF d THEN 1 ELSE 2
    /\ open = IF d THEN {} ELSE {1}
    /\ shut = {}
    /\ donewith = IF m = "both" /\ ps THEN ifdup_tcp(init_donewith) ELSE init_donewith
    /\ frees = 0
    /\ cleaned = {}
    /\ dead = {}
    /\ resumed = {}
    /\ val = IF cfg THEN PreambleOption ELSE << >>
    /\ parsed = cfg
    /\ preamble = IF cfg /\ ps THEN parse_preamble(PreambleOption) ELSE NULL
    /\ pre = IF cfg /\ ~d
             THEN do_preamble_status(parse_preamble(PreambleOption), ns)
             ELSE "none"
    /\ nb = FALSE
    /\ backlog = FALSE
    /\ sptr = "null"
    /\ got = 0
    /\ rerrno = "NONE"
    /\ writes = << >>
    /\ wire = << >>
    /\ srv = NoServer

Init ==
    \E m \in {"both", "in", "out"}, ps \in BOOLEAN, cfg \in BOOLEAN :
      \E d \in (IF ps THEN BOOLEAN ELSE {FALSE}) :
        \E f \in (IF d THEN {NoFd, Stale} ELSE {1}),
           ns \in (IF cfg /\ ~d THEN WriteRuns(parse_preamble(PreambleOption).len)
                   ELSE {<< >>}) :
            init_tcp(m, ps, d, f, cfg, ns)

-----------------------------------------------------------------------------
(* Thread start: init_tcp installs do_read/write_tcp, or delayed_connect.  *)

start_interface(t) ==
    /\ pc[t] = "start"
    /\ pc' = [pc EXCEPT ![t] = IF deferred THEN "dly_lock"
                               ELSE IF t = "R" THEN "r_top" ELSE "w_next"]
    /\ UNCHANGED << inflight, mode, deferred, persist, srv, rerrno, wire, writes, val, parsed, preamble, pre, nb,
                    backlog, sptr, got, fd, iofd, nread, done, err, rv, ret, critical,
                    fixing, fixer, mutex, woken, nextfd, open, shut, donewith, frees, cleaned, dead, resumed >>

\* delayed_connect calling do_connect without taking t_mutex.
delayed_connect_nolock(t) ==
    /\ pc[t] = "dly_lock"
    /\ ret' = [ret EXCEPT ![t] = "delayed"]
    /\ pc' = [pc EXCEPT ![t] = "dc_gai"]
    /\ UNCHANGED << inflight, mode, deferred, persist, srv, rerrno, wire, writes, val, parsed, preamble, pre, nb,
                    backlog, sptr, got, fd, iofd, nread, done, err, rv, critical,
                    fixing, fixer, mutex, woken, nextfd, open, shut, donewith,
                    frees, cleaned, dead, resumed >>

\* delayed_connect: pthread_mutex_lock, then do_connect.
delayed_connect(t) ==
    /\ pc[t] = "dly_lock"
    /\ mutex = "free"
    /\ mutex' = t
    /\ ret' = [ret EXCEPT ![t] = "delayed"]
    /\ pc' = [pc EXCEPT ![t] = "dc_gai"]
    /\ UNCHANGED << inflight, mode, deferred, persist, srv, rerrno, wire, writes, val, parsed, preamble, pre, nb,
                    backlog, sptr, got, fd, iofd, nread, done, err, rv, critical,
                    fixing, fixer, woken, nextfd, open, shut, donewith, frees, cleaned, dead, resumed >>

\* A delayed_connect that enters the I/O loop whatever do_connect returned.
delayed_connect_ret_nocheck(t) ==
    /\ pc[t] = "dc_done"
    /\ ret[t] = "delayed"
    /\ mutex' = mutex_unlock(t)
    /\ ret' = [ret EXCEPT ![t] = "none"]
    /\ pc' = [pc EXCEPT ![t] = IF t = "R" THEN "r_top" ELSE "w_next"]
    /\ UNCHANGED << inflight, mode, deferred, persist, srv, rerrno, wire, writes, val, parsed, preamble, pre, nb,
                    backlog, sptr, got, fd, iofd, nread, done, err, rv,
                    critical, fixing, fixer, woken, nextfd, open, shut,
                    donewith, frees, cleaned, dead, resumed >>

\* delayed_connect after do_connect: unlock, then exit or enter the I/O loop.
delayed_connect_ret(t) ==
    /\ pc[t] = "dc_done"
    /\ ret[t] = "delayed"
    /\ mutex' = mutex_unlock(t)
    /\ ret' = [ret EXCEPT ![t] = "none"]
    /\ pc' = [pc EXCEPT ![t] = IF rv[t] < 0 THEN "exited"
                               ELSE IF t = "R" THEN "r_top" ELSE "w_next"]
    /\ UNCHANGED << inflight, mode, deferred, persist, srv, rerrno, wire, writes, val, parsed, preamble, pre, nb,
                    backlog, sptr, got, fd, iofd, nread, done, err, rv, critical,
                    fixing, fixer, woken, nextfd, open, shut, donewith, frees, cleaned, dead, resumed >>

-----------------------------------------------------------------------------
(* do_connect                                                              *)

\* getaddrinfo: success, a transient error (sleep and retry) or another error.
do_connect_lookup(t) ==
    /\ pc[t] = "dc_gai"
    /\ \E r \in {"ok", "transient", "fatal"} :
         /\ pc' = [pc EXCEPT ![t] = CASE r = "ok" -> "dc_try"
                                      [] r = "transient" -> "dc_sleep"
                                      [] OTHER -> "dc_done"]
         /\ rv' = [rv EXCEPT ![t] = IF r = "fatal" THEN -1 ELSE @]
    /\ UNCHANGED << inflight, mode, deferred, persist, srv, rerrno, wire, writes, val, parsed, preamble, pre, nb,
                    backlog, sptr, got, fd, iofd, nread, done, err, ret, critical,
                    fixing, fixer, mutex, woken, nextfd, open, shut, donewith, frees, cleaned, dead, resumed >>

\* A do_connect that, after its sleep, tries the addresses it had resolved.
do_connect_sleep_noresolve(t) ==
    /\ pc[t] = "dc_sleep"
    /\ pc' = [pc EXCEPT ![t] = "dc_try"]
    /\ UNCHANGED << inflight, mode, deferred, persist, srv, wire, writes, val, parsed, preamble, pre, nb,
                    backlog, sptr, got, rerrno, fd, iofd, nread, done, err,
                    rv, ret, critical, fixing, fixer, mutex, woken, nextfd,
                    open, shut, donewith, frees, cleaned, dead, resumed >>

\* mysleep(ift->shared->retry) returns.
do_connect_sleep(t) ==
    /\ pc[t] = "dc_sleep"
    /\ pc' = [pc EXCEPT ![t] = "dc_gai"]
    /\ UNCHANGED << inflight, mode, deferred, persist, srv, rerrno, wire, writes, val, parsed, preamble, pre, nb,
                    backlog, sptr, got, fd, iofd, nread, done, err, rv, ret, critical,
                    fixing, fixer, mutex, woken, nextfd, open, shut, donewith, frees, cleaned, dead, resumed >>

\* A do_connect that stores the new socket in the caller's fd field only.
do_connect_fds_own(t, s) ==
    [x \in Threads |-> IF x = t THEN s ELSE fd[x]]

\* The fd fields after a successful connect on socket s: ift->fd, mirrored
\* to the pair.
do_connect_fds(t, s) ==
    [x \in Threads |-> IF x = t \/ HasPair THEN s ELSE fd[x]]

\* Line 186: socket() for the next address of the list; its result goes
\* into ift->fd at once.  A new socket is a blocking one and connect is
\* called on it; on -1 the loop goes on to the next address or, the list
\* exhausted, to the sleep of line 220.
do_connect_socket(t) ==
    /\ pc[t] = "dc_try"
    /\ \E r \in {"socket", "nosocket"}, more \in BOOLEAN :
         /\ (r = "socket") => nextfd <= MaxSock
         /\ IF r = "socket"
            THEN /\ fd' = [fd EXCEPT ![t] = nextfd]
                 /\ open' = open \cup {nextfd}
                 /\ nextfd' = nextfd + 1
                 /\ nb' = IF t = "R" THEN FALSE ELSE nb
                 /\ pc' = [pc EXCEPT ![t] = "dc_conn"]
            ELSE /\ fd' = [fd EXCEPT ![t] = NoFd]
                 /\ pc' = [pc EXCEPT ![t] = IF more THEN "dc_try" ELSE "dc_sleep"]
                 /\ UNCHANGED << open, nextfd, nb >>
    /\ UNCHANGED << inflight, mode, deferred, persist, srv, rerrno, wire, writes, val, parsed, preamble, pre,
                    backlog, sptr, got, iofd, nread, done, err, rv, ret,
                    critical, fixing, fixer, mutex, woken, shut, donewith,
                    frees, cleaned, dead, resumed >>

\* Lines 191-208: the blocking connect(ift->fd, ...) returns.  On 0 the
\* loop ends and the socket is copied to the pair's fd; otherwise
\* close(ift->fd), which leaves the closed descriptor in ift->fd, and on to
\* the next address or, the list exhausted, to the sleep of line 220.
do_connect_connect(t) ==
    /\ pc[t] = "dc_conn"
    /\ \E r \in {"connected", "refused"}, more \in BOOLEAN :
         /\ (r = "connected") => fd[t] \in open
         /\ IF r = "connected"
            THEN /\ fd' = do_connect_fds(t, fd[t])
                 /\ nb' = IF t = "R" \/ HasPair THEN FALSE ELSE nb
                 /\ rv' = [rv EXCEPT ![t] = 0]
                 /\ pre' = IF preamble.ok THEN "due" ELSE pre
                 /\ pc' = [pc EXCEPT ![t] = IF preamble.ok THEN "dc_pre"
                                            ELSE "dc_done"]
                 /\ UNCHANGED open
            ELSE /\ open' = open \ {fd[t]}
                 /\ pc' = [pc EXCEPT ![t] = IF more THEN "dc_try" ELSE "dc_sleep"]
                 /\ UNCHANGED << fd, rv, nb, pre >>
    /\ UNCHANGED << inflight, mode, deferred, persist, srv, rerrno, wire, writes, val, parsed, preamble, backlog,
                    sptr, got, iofd, nread, done, err, ret, critical, fixing,
                    fixer, mutex, woken, nextfd, shut, donewith, frees,
                    cleaned, dead, resumed >>

\* Lines 210-211, after the pair's fd was set: do_preamble(ift, NULL); its
\* result is not looked at.
do_connect_preamble(t) ==
    /\ pc[t] = "dc_pre"
    /\ \E ns \in WriteRuns(preamble.len) :
         pre' = do_preamble_status(preamble, ns)
    /\ pc' = [pc EXCEPT ![t] = "dc_done"]
    /\ UNCHANGED << inflight, mode, deferred, persist, srv, rerrno, wire, writes, val, parsed, preamble, nb,
                    backlog, sptr, got, fd, iofd, nread, done, err, rv, ret,
                    critical, fixing, fixer, mutex, woken, nextfd, open,
                    shut, donewith, frees, cleaned, dead, resumed >>

\* do_connect returned to reread: nread = do_connect(ifa); the socket flags
\* are restored on the new descriptor when nread >= 0.
reread_connected(t) ==
    /\ t = "R"
    /\ pc[t] = "dc_done"
    /\ ret[t] = "recover"
    /\ nread' = rv[t]
    /\ nb' = IF rv[t] >= 0 THEN FALSE ELSE nb
    /\ ret' = [ret EXCEPT ![t] = "none"]
    /\ pc' = [pc EXCEPT ![t] = "rr_ret"]
    /\ UNCHANGED << inflight, mode, deferred, persist, srv, rerrno, wire, writes, val, parsed, preamble, pre,
                    backlog, sptr, got, fd, iofd, done, err, rv, critical,
                    fixing, fixer, mutex, woken, nextfd, open, shut,
                    donewith, frees, cleaned, dead, resumed >>

\* A reconnect that returns without flush_queue.
reconnect_connected_noflush(t) ==
    /\ t = "W"
    /\ pc[t] = "dc_done"
    /\ ret[t] = "recover"
    /\ ret' = [ret EXCEPT ![t] = "none"]
    /\ pc' = [pc EXCEPT ![t] = "rc_ret"]
    /\ UNCHANGED << inflight, mode, deferred, persist, srv, rerrno, wire, writes, val, parsed, preamble, pre, nb,
                    backlog, sptr, got, fd, iofd, nread, done, err, rv,
                    critical, fixing, fixer, mutex, woken, nextfd, open,
                    shut, donewith, frees, cleaned, dead, resumed >>

\* do_connect returned to reconnect (lines 247-254): return ret, after
\* flush_queue, which empties the queue, when ret = 0.
reconnect_connected(t) ==
    /\ t = "W"
    /\ pc[t] = "dc_done"
    /\ ret[t] = "recover"
    /\ backlog' = IF rv[t] < 0 THEN backlog ELSE FALSE
    /\ ret' = [ret EXCEPT ![t] = "none"]
    /\ pc' = [pc EXCEPT ![t] = "rc_ret"]
    /\ UNCHANGED << inflight, mode, deferred, persist, srv, rerrno, wire, writes, val, parsed, preamble, pre, nb,
                    sptr, got, fd, iofd, nread, done, err, rv, critical,
                    fixing, fixer, mutex, woken, nextfd, open, shut,
                    donewith, frees, cleaned, dead, resumed >>

-----------------------------------------------------------------------------
(* read_tcp, called again by do_read after every n > 0                     *)

\* Lines 330-341: with F_PERSIST, under t_mutex, return -1 when fd == -1,
\* else critical++.  nread keeps the value of the last pass of the loop.
read_tcp_enter(t) ==
    /\ t = "R"
    /\ pc[t] = "r_top"
    /\ persist => mutex = "free"
    /\ resumed' = IF fd[t] = NoFd THEN resumed \ {t} ELSE resumed
    /\ IF persist /\ fd[t] = NoFd
       THEN /\ nread' = -1
            /\ pc' = [pc EXCEPT ![t] = "r_ret"]
            /\ UNCHANGED critical
       ELSE /\ critical' = IF persist THEN critical + 1 ELSE critical
            /\ UNCHANGED nread
            /\ pc' = [pc EXCEPT ![t] = "r_io"]
    /\ UNCHANGED << inflight, mode, deferred, persist, srv, rerrno, wire, writes, val, parsed, preamble, pre, nb,
                    backlog, sptr, got, fd, iofd, done, err, rv, ret, fixing,
                    fixer, mutex, woken, nextfd, open, shut, donewith, frees,
                    cleaned, dead >>

\* Line 347: read(ift->fd, ...) is entered with the fd field's current value;
\* on an open socket the call holds the socket until it returns.
read_tcp_read(t) ==
    /\ t = "R"
    /\ pc[t] = "r_io"
    /\ iofd' = [iofd EXCEPT ![t] = fd[t]]
    /\ inflight' = IF fd[t] \in open THEN inflight \cup {t} ELSE inflight \ {t}
    /\ resumed' = resumed \ {t}
    /\ pc' = [pc EXCEPT ![t] = "r_inio"]
    /\ UNCHANGED << mode, deferred, persist, srv, rerrno, wire, writes, val, parsed, preamble, pre, nb,
                    backlog, sptr, got, fd, nread, done, err, rv, ret, critical,
                    fixing, fixer, mutex, woken, nextfd, open, shut, donewith, frees, cleaned, dead >>

\* A read_tcp that does not test F_PERSIST after its read.
read_tcp_read_ret_retry(t) ==
    /\ t = "R"
    /\ pc[t] = "r_inio"
    /\ \E n \in {-1, 0, 1} :
         /\ (n > 0) => t \in inflight
         /\ nread' = n
         /\ pc' = [pc EXCEPT ![t] = IF n > 0 THEN "r_ok" ELSE "r_fail"]
    /\ inflight' = inflight \ {t}
    /\ UNCHANGED << mode, deferred, persist, srv, rerrno, wire, writes, val, parsed, preamble, pre, nb,
                    backlog, sptr, got, fd, iofd, done, err, rv, ret,
                    critical, fixing, fixer, mutex, woken, nextfd, open,
                    shut, donewith, frees, cleaned, dead, resumed >>

\* read returns: n > 0 only from a socket that was open when the call was
\* entered, closed since or not; else 0 (EOF) or -1.  Without
\* F_PERSIST read_tcp returns n whatever it is (lines 355-356 and 381).
read_tcp_read_ret(t) ==
    /\ t = "R"
    /\ pc[t] = "r_inio"
    /\ \E n \in {-1, 0, 1} :
         /\ (n > 0) => t \in inflight
         /\ nread' = n
         /\ pc' = [pc EXCEPT ![t] = IF ~persist THEN "r_ret"
                                    ELSE IF n > 0 THEN "r_ok" ELSE "r_fail"]
    /\ inflight' = inflight \ {t}
    /\ UNCHANGED << mode, deferred, persist, srv, rerrno, wire, writes, val, parsed, preamble, pre, nb,
                    backlog, sptr, got, fd, iofd, done, err, rv, ret,
                    critical, fixing, fixer, mutex, woken, nextfd, open,
                    shut, donewith, frees, cleaned, dead, resumed >>

\* Lines 381-387: data was read: critical--, signal fv if a fix is pending,
\* return the data.
read_tcp_ok(t) ==
    /\ t = "R"
    /\ pc[t] = "r_ok"
    /\ mutex = "free"
    /\ critical' = critical - 1
    /\ woken' = IF fixing # 0 THEN cond_signal(t) ELSE woken
    /\ pc' = [pc EXCEPT ![t] = "r_ret"]
    /\ UNCHANGED << inflight, mode, deferred, persist, srv, rerrno, wire, writes, val, parsed, preamble, pre, nb,
                    backlog, sptr, got, fd, iofd, nread, done, err, rv, ret,
                    fixing, fixer, mutex, nextfd, open, shut, donewith,
                    frees, cleaned, dead, resumed >>

\* A read_tcp that, finding a fix pending, recovers by itself.
read_tcp_fail_nowait(t) ==
    /\ t = "R"
    /\ pc[t] = "r_fail"
    /\ mutex = "free"
    /\ IF fixing = 0 /\ critical = 2
       THEN /\ fixing' = fixing + 1
            /\ fixer' = t
            /\ shut' = shut \cup {fd[t]}
            /\ pc' = [pc EXCEPT ![t] = "r_waitfix"]
            /\ UNCHANGED << woken, mutex >>
       ELSE /\ mutex' = t
            /\ pc' = [pc EXCEPT ![t] = "rr_start"]
            /\ UNCHANGED << fixing, fixer, shut, woken >>
    /\ UNCHANGED << inflight, mode, deferred, persist, srv, rerrno, wire, writes, val, parsed, preamble, pre, nb,
                    backlog, sptr, got, fd, iofd, nread, done, err, rv, ret, critical,
                    nextfd, open, donewith, frees, cleaned, dead, resumed >>

\* Lines 357-366: the read failed.  With a fix pending: signal and wait.
\* Else with the sibling in its critical region: fixing++, shutdown, wait.
\* Else recover at once, keeping the mutex.
read_tcp_fail(t) ==
    /\ t = "R"
    /\ pc[t] = "r_fail"
    /\ mutex = "free"
    /\ IF fixing # 0
       THEN /\ woken' = cond_signal(t)
            /\ pc' = [pc EXCEPT ![t] = "r_waitsib"]
            /\ UNCHANGED << fixing, fixer, shut, mutex >>
       ELSE IF critical = 2
       THEN /\ fixing' = fixing + 1
            /\ fixer' = t
            /\ shut' = shut \cup {fd[t]}
            /\ pc' = [pc EXCEPT ![t] = "r_waitfix"]
            /\ UNCHANGED << woken, mutex >>
       ELSE /\ mutex' = t
            /\ pc' = [pc EXCEPT ![t] = "rr_start"]
            /\ UNCHANGED << fixing, fixer, shut, woken >>
    /\ UNCHANGED << inflight, mode, deferred, persist, srv, rerrno, wire, writes, val, parsed, preamble, pre, nb,
                    backlog, sptr, got, fd, iofd, nread, done, err, rv, ret, critical,
                    nextfd, open, donewith, frees, cleaned, dead, resumed >>

\* Line 365: the fixer's pthread_cond_wait returns with the mutex held.
read_tcp_fixer_wakes(t) ==
    /\ t = "R"
    /\ pc[t] = "r_waitfix"
    /\ t \in woken
    /\ mutex = "free"
    /\ mutex' = t
    /\ woken' = woken \ {t}
    /\ pc' = [pc EXCEPT ![t] = "rr_start"]
    /\ UNCHANGED << inflight, mode, deferred, persist, srv, rerrno, wire, writes, val, parsed, preamble, pre, nb,
                    backlog, sptr, got, fd, iofd, nread, done, err, rv, ret, critical,
                    fixing, fixer, nextfd, open, shut, donewith, frees, cleaned, dead, resumed >>

\* Lines 360, 379-380: the waiting sibling's pthread_cond_wait returns;
\* critical--, unlock, and around the loop (nread <= 0).
read_tcp_sibling_wakes(t) ==
    /\ t = "R"
    /\ pc[t] = "r_waitsib"
    /\ t \in woken
    /\ mutex = "free"
    /\ woken' = woken \ {t}
    /\ critical' = critical - 1
    /\ pc' = [pc EXCEPT ![t] = "r_top"]
    /\ UNCHANGED << inflight, mode, deferred, persist, srv, rerrno, wire, writes, val, parsed, preamble, pre, nb,
                    backlog, sptr, got, fd, iofd, nread, done, err, rv, ret,
                    fixing, fixer, mutex, nextfd, open, shut, donewith, frees, cleaned, dead >>
    /\ resumed' = resumed \cup {t}

\* A reread that leaves O_NONBLOCK set after its read.
reread_nonblocking(t) ==
    /\ t = "R"
    /\ pc[t] = "rr_start"
    /\ IF fd[t] \notin open
       THEN /\ nread' = -1
            /\ pc' = [pc EXCEPT ![t] = "rr_ret"]
            /\ UNCHANGED << ret, nb, got, rerrno >>
       ELSE \E n \in {-1, 0, 1}, wouldblock \in BOOLEAN :
              /\ got' = IF n > 0 THEN n ELSE 0
              /\ rerrno' = IF n >= 0 THEN "NONE"
                           ELSE IF wouldblock THEN "EAGAIN" ELSE "OTHER"
              /\ nb' = TRUE
              /\ IF n > 0 \/ (n < 0 /\ wouldblock)
                 THEN /\ nread' = IF n > 0 THEN n ELSE 0
                      /\ pc' = [pc EXCEPT ![t] = "rr_ret"]
                      /\ UNCHANGED ret
                 ELSE /\ ret' = [ret EXCEPT ![t] = "recover"]
                      /\ pc' = [pc EXCEPT ![t] = "dc_gai"]
                      /\ UNCHANGED nread
    /\ UNCHANGED << inflight, mode, deferred, persist, srv, wire, writes, val, parsed, preamble, pre,
                    backlog, sptr, fd, iofd, done, err, rv, critical, fixing,
                    fixer, mutex, woken, nextfd, open, shut, donewith, frees,
                    cleaned, dead, resumed >>

\* A reread that takes EWOULDBLOCK/EAGAIN for a lost connection.
reread_eagain_reconnects(t) ==
    /\ t = "R"
    /\ pc[t] = "rr_start"
    /\ IF fd[t] \notin open
       THEN /\ nread' = -1
            /\ pc' = [pc EXCEPT ![t] = "rr_ret"]
            /\ UNCHANGED << ret, nb, got, rerrno >>
       ELSE \E n \in {-1, 0, 1}, wouldblock \in BOOLEAN :
              /\ got' = IF n > 0 THEN n ELSE 0
              /\ rerrno' = IF n >= 0 THEN "NONE"
                           ELSE IF wouldblock THEN "EAGAIN" ELSE "OTHER"
              /\ IF n > 0
                 THEN /\ nread' = n
                      /\ nb' = FALSE
                      /\ pc' = [pc EXCEPT ![t] = "rr_ret"]
                      /\ UNCHANGED ret
                 ELSE /\ nb' = TRUE
                      /\ ret' = [ret EXCEPT ![t] = "recover"]
                      /\ pc' = [pc EXCEPT ![t] = "dc_gai"]
                      /\ UNCHANGED nread
    /\ UNCHANGED << inflight, mode, deferred, persist, srv, wire, writes, val, parsed, preamble, pre,
                    backlog, sptr, fd, iofd, done, err, rv, critical, fixing,
                    fixer, mutex, woken, nextfd, open, shut, donewith, frees,
                    cleaned, dead, resumed >>

\* reread, lines 275-301: fcntl fails on a descriptor that is not open.
\* Else O_NONBLOCK is set and read is called: n > 0 is returned; -1 with
\* EWOULDBLOCK/EAGAIN gives 0; EOF or another error calls do_connect.  When
\* do_connect is not called the flags are restored at once (line 296).
reread(t) ==
    /\ t = "R"
    /\ pc[t] = "rr_start"
    /\ IF fd[t] \notin open
       THEN /\ nread' = -1
            /\ pc' = [pc EXCEPT ![t] = "rr_ret"]
            /\ UNCHANGED << ret, nb, got, rerrno >>
       ELSE \E n \in {-1, 0, 1}, wouldblock \in BOOLEAN :
              /\ got' = IF n > 0 THEN n ELSE 0
              /\ rerrno' = IF n >= 0 THEN "NONE"
                           ELSE IF wouldblock THEN "EAGAIN" ELSE "OTHER"
              /\ IF n > 0 \/ (n < 0 /\ wouldblock)
                 THEN /\ nread' = IF n > 0 THEN n ELSE 0
                      /\ nb' = FALSE
                      /\ pc' = [pc EXCEPT ![t] = "rr_ret"]
                      /\ UNCHANGED ret
                 ELSE /\ nb' = TRUE
                      /\ ret' = [ret EXCEPT ![t] = "recover"]
                      /\ pc' = [pc EXCEPT ![t] = "dc_gai"]
                      /\ UNCHANGED nread
    /\ UNCHANGED << inflight, mode, deferred, persist, srv, wire, writes, val, parsed, preamble, pre,
                    backlog, sptr, fd, iofd, done, err, rv, critical, fixing,
                    fixer, mutex, woken, nextfd, open, shut, donewith, frees,
                    cleaned, dead, resumed >>

\* The fd fields after the reader's failed recovery (lines 368-370).
read_tcp_dead_fds(t) ==
    [x \in Threads |-> IF x = t \/ HasPair THEN NoFd ELSE fd[x]]

\* Lines 367-379: after reread: on failure fd = -1 for both siblings;
\* release the fix if one is held; critical--.
read_tcp_recovered(t) ==
    /\ t = "R"
    /\ pc[t] = "rr_ret"
    /\ fd' = IF nread < 0 THEN read_tcp_dead_fds(t) ELSE fd
    /\ fixing' = IF fixing # 0 THEN 0 ELSE fixing
    /\ fixer' = IF fixing # 0 THEN "none" ELSE fixer
    /\ woken' = IF fixing # 0 THEN cond_signal(t) ELSE woken
    /\ critical' = critical - 1
    /\ pc' = [pc EXCEPT ![t] = "r_unlock"]
    /\ UNCHANGED << inflight, mode, deferred, persist, srv, rerrno, wire, writes, val, parsed, preamble, pre, nb,
                    backlog, sptr, got, iofd, nread, done, err, rv, ret,
                    mutex, nextfd, open, shut, donewith, frees, cleaned, resumed >>
    /\ dead' = IF nread < 0 THEN dead \cup {x \in Threads : x = t \/ HasPair} ELSE dead

\* Line 380: unlock; the loop ends (nread > 0: return) or repeats.
read_tcp_unlock(t) ==
    /\ t = "R"
    /\ pc[t] = "r_unlock"
    /\ mutex' = mutex_unlock(t)
    /\ got' = 0
    /\ rerrno' = "NONE"
    /\ pc' = [pc EXCEPT ![t] = IF nread > 0 THEN "r_ret" ELSE "r_top"]
    /\ UNCHANGED << inflight, mode, deferred, persist, srv, wire, writes, val, parsed, preamble, pre, nb,
                    backlog, sptr, fd, iofd, nread, done, err, rv, ret,
                    critical, fixing, fixer, woken, nextfd, open, shut,
                    donewith, frees, cleaned, dead, resumed >>

\* do_read: read_tcp has returned nread; with n > 0 the data is passed on
\* and read_tcp is called again (line 329: nread = 0, once per call);
\* otherwise the thread exits.
do_read(t) ==
    /\ t = "R"
    /\ pc[t] = "r_ret"
    /\ pc' = [pc EXCEPT ![t] = IF nread > 0 THEN "r_top" ELSE "exited"]
    /\ nread' = IF nread > 0 THEN 0 ELSE nread
    /\ UNCHANGED << inflight, mode, deferred, persist, srv, rerrno, wire, writes, val, parsed, preamble, pre, nb,
                    backlog, sptr, got, fd, iofd, done, err, rv, ret,
                    critical, fixing, fixer, mutex, woken, nextfd, open,
                    shut, donewith, frees, cleaned, dead, resumed >>

-----------------------------------------------------------------------------
(* write_tcp                                                               *)

\* Line 416: next_senblk blocks until a message is queued (or returns NULL
\* once the queue is closed, which ends the loop).
write_tcp_next(t) ==
    /\ t = "W"
    /\ pc[t] = "w_next"
    /\ \E m \in {"msg", "null"} :
         /\ sptr' = m
         /\ pc' = [pc EXCEPT ![t] = IF m = "msg" THEN "w_top" ELSE "exited"]
         /\ resumed' = IF m = "msg" THEN resumed ELSE resumed \ {t}
    /\ UNCHANGED << inflight, mode, deferred, persist, srv, rerrno, wire, writes, val, parsed, preamble, pre, nb,
                    backlog, got, fd, iofd, nread, done, err, rv, ret,
                    critical, fixing, fixer, mutex, woken, nextfd, open,
                    shut, donewith, frees, cleaned, dead >>

\* Lines 434-445: with F_PERSIST, under t_mutex, free the message and leave
\* when fd == -1, else critical++.
write_tcp_enter(t) ==
    /\ t = "W"
    /\ pc[t] = "w_top"
    /\ persist => mutex = "free"
    /\ resumed' = IF fd[t] = NoFd THEN resumed \ {t} ELSE resumed
    /\ IF persist /\ fd[t] = NoFd
       THEN /\ done' = TRUE
            /\ sptr' = "null"
            /\ pc' = [pc EXCEPT ![t] = "exited"]
            /\ UNCHANGED critical
       ELSE /\ critical' = IF persist THEN critical + 1 ELSE critical
            /\ pc' = [pc EXCEPT ![t] = "w_io"]
            /\ UNCHANGED << done, sptr >>
    /\ UNCHANGED << inflight, mode, deferred, persist, srv, rerrno, wire, writes, val, parsed, preamble, pre, nb,
                    backlog, got, fd, iofd, nread, err, rv, ret, fixing,
                    fixer, mutex, woken, nextfd, open, shut, donewith, frees,
                    cleaned, dead >>

\* Line 446: writev(ift->fd, ...) is entered with the fd field's current value.
write_tcp_writev(t) ==
    /\ t = "W"
    /\ pc[t] = "w_io"
    /\ iofd' = [iofd EXCEPT ![t] = fd[t]]
    /\ inflight' = IF fd[t] \in open \ shut THEN inflight \cup {t}
                 ELSE inflight \ {t}
    /\ resumed' = resumed \ {t}
    /\ pc' = [pc EXCEPT ![t] = "w_inio"]
    /\ UNCHANGED << mode, deferred, persist, srv, rerrno, wire, writes, val, parsed, preamble, pre, nb,
                    backlog, sptr, got, fd, nread, done, err, rv, ret, critical,
                    fixing, fixer, mutex, woken, nextfd, open, shut, donewith, frees, cleaned, dead >>

\* writev returns: success only on a socket that was open, and not shut
\* down, when the call was entered, whatever close or shutdown did since;
\* a failure leaves errno EAGAIN (send timeout) or another error.  Without
\* F_PERSIST (lines 450-453, 485): senblk_free, and a failure ends the loop.
write_tcp_writev_ret(t) ==
    /\ t = "W"
    /\ pc[t] = "w_inio"
    /\ \E e \in {"OK", "EAGAIN", "OTHER"} :
         /\ (e = "OK") => t \in inflight
         /\ err' = IF e = "OK" THEN err ELSE e
         /\ IF persist
            THEN /\ pc' = [pc EXCEPT ![t] = IF e = "OK" THEN "w_ok" ELSE "w_fail"]
                 /\ UNCHANGED sptr
            ELSE /\ pc' = [pc EXCEPT ![t] = IF e = "OK" THEN "w_next" ELSE "exited"]
                 /\ sptr' = "null"
    /\ inflight' = inflight \ {t}
    /\ UNCHANGED << mode, deferred, persist, srv, rerrno, wire, writes, val, parsed, preamble, pre, nb,
                    backlog, got, fd, iofd, nread, done, rv, ret, critical,
                    fixing, fixer, mutex, woken, nextfd, open, shut,
                    donewith, frees, cleaned, dead, resumed >>

\* Lines 478-485: the write succeeded: critical--, signal fv if a fix is
\* pending, free the message.
write_tcp_ok(t) ==
    /\ t = "W"
    /\ pc[t] = "w_ok"
    /\ mutex = "free"
    /\ critical' = critical - 1
    /\ woken' = IF fixing # 0 THEN cond_signal(t) ELSE woken
    /\ sptr' = "null"
    /\ pc' = [pc EXCEPT ![t] = "w_next"]
    /\ UNCHANGED << inflight, mode, deferred, persist, srv, rerrno, wire, writes, val, parsed, preamble, pre, nb,
                    backlog, got, fd, iofd, nread, done, err, rv, ret,
                    fixing, fixer, mutex, nextfd, open, shut, donewith,
                    frees, cleaned, dead, resumed >>

\* Lines 454-463: the write failed; as in read_tcp.
write_tcp_fail(t) ==
    /\ t = "W"
    /\ pc[t] = "w_fail"
    /\ mutex = "free"
    /\ IF fixing # 0
       THEN /\ woken' = cond_signal(t)
            /\ pc' = [pc EXCEPT ![t] = "w_waitsib"]
            /\ UNCHANGED << fixing, fixer, shut, mutex >>
       ELSE IF critical = 2
       THEN /\ fixing' = fixing + 1
            /\ fixer' = t
            /\ shut' = shut \cup {fd[t]}
            /\ pc' = [pc EXCEPT ![t] = "w_waitfix"]
            /\ UNCHANGED << woken, mutex >>
       ELSE /\ mutex' = t
            /\ pc' = [pc EXCEPT ![t] = "rc_start"]
            /\ UNCHANGED << fixing, fixer, shut, woken >>
    /\ UNCHANGED << inflight, mode, deferred, persist, srv, rerrno, wire, writes, val, parsed, preamble, pre, nb,
                    backlog, sptr, got, fd, iofd, nread, done, err, rv, ret, critical,
                    nextfd, open, donewith, frees, cleaned, dead, resumed >>

\* Line 462: the fixer's pthread_cond_wait returns with the mutex held.
write_tcp_fixer_wakes(t) ==
    /\ t = "W"
    /\ pc[t] = "w_waitfix"
    /\ t \in woken
    /\ mutex = "free"
    /\ mutex' = t
    /\ woken' = woken \ {t}
    /\ pc' = [pc EXCEPT ![t] = "rc_start"]
    /\ UNCHANGED << inflight, mode, deferred, persist, srv, rerrno, wire, writes, val, parsed, preamble, pre, nb,
                    backlog, sptr, got, fd, iofd, nread, done, err, rv, ret, critical,
                    fixing, fixer, nextfd, open, shut, donewith, frees, cleaned, dead, resumed >>

\* The waiting sibling leaving without its critical--.
write_tcp_sibling_wakes_nodec(t) ==
    /\ t = "W"
    /\ pc[t] = "w_waitsib"
    /\ t \in woken
    /\ mutex = "free"
    /\ woken' = woken \ {t}
    /\ sptr' = "null"
    /\ pc' = [pc EXCEPT ![t] = "w_next"]
    /\ resumed' = resumed \cup {t}
    /\ UNCHANGED << inflight, mode, deferred, persist, srv, rerrno, wire, writes, val, parsed, preamble, pre, nb,
                    backlog, got, fd, iofd, nread, done, err, rv, ret,
                    critical, fixing, fixer, mutex, nextfd, open, shut,
                    donewith, frees, cleaned, dead >>

\* Lines 457, 476-477, 485: the waiting sibling's pthread_cond_wait returns;
\* critical--, unlock, free the message.
write_tcp_sibling_wakes(t) ==
    /\ t = "W"
    /\ pc[t] = "w_waitsib"
    /\ t \in woken
    /\ mutex = "free"
    /\ woken' = woken \ {t}
    /\ critical' = critical - 1
    /\ sptr' = "null"
    /\ pc' = [pc EXCEPT ![t] = "w_next"]
    /\ resumed' = resumed \cup {t}
    /\ UNCHANGED << inflight, mode, deferred, persist, srv, rerrno, wire, writes, val, parsed, preamble, pre, nb,
                    backlog, got, fd, iofd, nread, done, err, rv, ret,
                    fixing, fixer, mutex, nextfd, open, shut, donewith,
                    frees, cleaned, dead >>

\* A reconnect that releases t_mutex around its retry delay.
reconnect_unlocked(t) ==
    /\ t = "W"
    /\ pc[t] = "rc_start"
    /\ backlog' = TRUE
    /\ IF err = "EAGAIN"
       THEN /\ ret' = [ret EXCEPT ![t] = "recover"]
            /\ pc' = [pc EXCEPT ![t] = "dc_gai"]
            /\ UNCHANGED mutex
       ELSE /\ pc' = [pc EXCEPT ![t] = "rc_sleep"]
            /\ mutex' = mutex_unlock(t)
            /\ UNCHANGED ret
    /\ UNCHANGED << inflight, mode, deferred, persist, srv, rerrno, wire, writes, val, parsed, preamble, pre, nb,
                    sptr, got, fd, iofd, nread, done, err, rv, critical,
                    fixing, fixer, woken, nextfd, open, shut, donewith,
                    frees, cleaned, dead, resumed >>

\* A reconnect that never sleeps before do_connect.
reconnect_nosleep(t) ==
    /\ t = "W"
    /\ pc[t] = "rc_start"
    /\ backlog' = TRUE
    /\ ret' = [ret EXCEPT ![t] = "recover"]
    /\ pc' = [pc EXCEPT ![t] = "dc_gai"]
    /\ UNCHANGED << inflight, mode, deferred, persist, srv, rerrno, wire, writes, val, parsed, preamble, pre, nb,
                    sptr, got, fd, iofd, nread, done, err, rv, critical,
                    fixing, fixer, mutex, woken, nextfd, open, shut,
                    donewith, frees, cleaned, dead, resumed >>

\* reconnect, lines 240-247: mysleep(retry) unless err is EAGAIN, then
\* do_connect.  From here on what the queue holds was queued before the new
\* connection.
reconnect(t) ==
    /\ t = "W"
    /\ pc[t] = "rc_start"
    /\ backlog' = TRUE
    /\ IF err = "EAGAIN"
       THEN /\ ret' = [ret EXCEPT ![t] = "recover"]
            /\ pc' = [pc EXCEPT ![t] = "dc_gai"]
       ELSE /\ pc' = [pc EXCEPT ![t] = "rc_sleep"]
            /\ UNCHANGED ret
    /\ UNCHANGED << inflight, mode, deferred, persist, srv, rerrno, wire, writes, val, parsed, preamble, pre, nb,
                    sptr, got, fd, iofd, nread, done, err, rv, critical,
                    fixing, fixer, mutex, woken, nextfd, open, shut,
                    donewith, frees, cleaned, dead, resumed >>

\* Line 244: mysleep returns; line 247: do_connect.
reconnect_sleep(t) ==
    /\ t = "W"
    /\ pc[t] = "rc_sleep"
    /\ ret' = [ret EXCEPT ![t] = "recover"]
    /\ pc' = [pc EXCEPT ![t] = "dc_gai"]
    /\ UNCHANGED << inflight, mode, deferred, persist, srv, rerrno, wire, writes, val, parsed, preamble, pre, nb,
                    backlog, sptr, got, fd, iofd, nread, done, err, rv, critical,
                    fixing, fixer, mutex, woken, nextfd, open, shut, donewith, frees, cleaned, dead, resumed >>

\* The fd fields after the writer's failed recovery (lines 465-466): only
\* the pair's.
write_tcp_dead_fds(t) ==
    [x \in Threads |-> IF x # t /\ HasPair THEN NoFd ELSE fd[x]]

\* Lines 464-476: after reconnect: on failure the pair's fd = -1 and done++;
\* release the fix if one is held; critical--.
write_tcp_recovered(t) ==
    /\ t = "W"
    /\ pc[t] = "rc_ret"
    /\ fd' = IF rv[t] < 0 THEN write_tcp_dead_fds(t) ELSE fd
    /\ done' = IF rv[t] < 0 THEN TRUE ELSE done
    /\ fixing' = IF fixing # 0 THEN 0 ELSE fixing
    /\ fixer' = IF fixing # 0 THEN "none" ELSE fixer
    /\ woken' = IF fixing # 0 THEN cond_signal(t) ELSE woken
    /\ critical' = critical - 1
    /\ pc' = [pc EXCEPT ![t] = "w_unlock"]
    /\ UNCHANGED << inflight, mode, deferred, persist, srv, rerrno, wire, writes, val, parsed, preamble, pre, nb,
                    backlog, sptr, got, iofd, nread, err, rv, ret,
                    mutex, nextfd, open, shut, donewith, frees, cleaned, resumed >>
    /\ dead' = IF rv[t] < 0 THEN dead \cup {x \in Threads : x # t /\ HasPair} ELSE dead

\* A write_tcp that, after a recovery, writes the same message again.
write_tcp_unlock_resend(t) ==
    /\ t = "W"
    /\ pc[t] = "w_unlock"
    /\ mutex' = mutex_unlock(t)
    /\ sptr' = IF done THEN "null" ELSE sptr
    /\ pc' = [pc EXCEPT ![t] = IF done THEN "exited" ELSE "w_top"]
    /\ UNCHANGED << inflight, mode, deferred, persist, srv, val, parsed, preamble, pre, nb,
                    backlog, got, rerrno, wire, writes, fd, iofd, nread,
                    done, err, rv, ret, critical, fixing, fixer, woken,
                    nextfd, open, shut, donewith, frees, cleaned, dead,
                    resumed >>

\* Lines 477, 485, 414: unlock, free the message, leave the loop when done.
write_tcp_unlock(t) ==
    /\ t = "W"
    /\ pc[t] = "w_unlock"
    /\ mutex' = mutex_unlock(t)
    /\ sptr' = "null"
    /\ pc' = [pc EXCEPT ![t] = IF done THEN "exited" ELSE "w_next"]
    /\ UNCHANGED << inflight, mode, deferred, persist, srv, rerrno, wire, writes, val, parsed, preamble, pre, nb,
                    backlog, got, fd, iofd, nread, done, err, rv, ret,
                    critical, fixing, fixer, woken, nextfd, open, shut,
                    donewith, frees, cleaned, dead, resumed >>

-----------------------------------------------------------------------------
(* cleanup_tcp, run once for each interface whose thread has exited        *)

\* Line 49: pthread_mutex_unlock by a thread that may not own the mutex.
\* Unlocking a sibling's lock is undefined: it is released, or it is not.
cleanup_unlock(t) ==
    IF mutex = Other(t) THEN {"free", mutex} ELSE {"free"}

\* Lines 46-67: without Shared only close(ift->fd).  With it: unlock; the
\* first of a pair counts itself in donewith and returns; otherwise Shared
\* is freed and the descriptor closed.
cleanup_tcp(t) ==
    /\ pc[t] = "exited"
    /\ t \notin cleaned
    /\ cleaned' = cleaned \cup {t}
    /\ IF ~persist
       THEN /\ open' = open \ {fd[t]}
            /\ UNCHANGED << mutex, donewith, frees >>
       ELSE /\ mutex' \in cleanup_unlock(t)
            /\ IF donewith = 0
               THEN /\ donewith' = donewith + 1
                    /\ UNCHANGED << frees, open >>
               ELSE /\ frees' = frees + 1
                    /\ open' = open \ {fd[t]}
                    /\ UNCHANGED donewith
    /\ UNCHANGED << inflight, mode, deferred, persist, srv, rerrno, wire, writes, val, parsed, preamble, pre, nb,
                    backlog, sptr, got, pc, fd, iofd, nread, done, err, rv,
                    ret, critical, fixing, fixer, woken, nextfd, shut, dead,
                    resumed >>

-----------------------------------------------------------------------------

\* One step of thread t (or of the host's cleanup for t's interface).
Step(t) ==
        \/ start_interface(t)
        \/ delayed_connect(t)
        \/ delayed_connect_ret(t)
        \/ do_connect_lookup(t)
        \/ do_connect_sleep(t)
        \/ do_connect_socket(t)
        \/ do_connect_connect(t)
        \/ do_connect_preamble(t)
        \/ reread_connected(t)
        \/ reconnect_connected(t)
        \/ read_tcp_enter(t)
        \/ read_tcp_read(t)
        \/ read_tcp_read_ret(t)
        \/ read_tcp_ok(t)
        \/ read_tcp_fail(t)
        \/ read_tcp_fixer_wakes(t)
        \/ read_tcp_sibling_wakes(t)
        \/ reread(t)
        \/ read_tcp_recovered(t)
        \/ read_tcp_unlock(t)
        \/ do_read(t)
        \/ write_tcp_next(t)
        \/ write_tcp_enter(t)
        \/ write_tcp_writev(t)
        \/ write_tcp_writev_ret(t)
        \/ write_tcp_ok(t)
        \/ write_tcp_fail(t)
        \/ write_tcp_fixer_wakes(t)
        \/ write_tcp_sibling_wakes(t)
        \/ reconnect(t)
        \/ reconnect_sleep(t)
        \/ write_tcp_recovered(t)
        \/ write_tcp_unlock(t)
        \/ cleanup_tcp(t)

Next == \E t \in Threads : Step(t)

Spec == Init /\ [][Next]_vars

\* t is inside a call that returns only when the peer or the queue
\* delivers: read or writev entered on an open socket on which shutdown
\* was not called, or next_senblk.
Blocked(t) ==
    \/ pc[t] \in {"r_inio", "w_inio"} /\ t \in inflight /\ iofd[t] \notin shut
    \/ pc[t] = "w_next"

\* Every thread that can take a step eventually takes one, unless it is
\* blocked in such a call: the scheduler runs every runnable thread,
\* connect and mysleep return, and the mutex is eventually handed to a
\* thread that waits for it.
FairSpec == Spec /\ \A t \in Threads : WF_vars(~Blocked(t) /\ Step(t))

-----------------------------------------------------------------------------
(* init_tcp's option loop handing the preamble option to parse_preamble    *)

\* All strings over S of at most n bytes.
SeqsUpTo(S, n) == UNION {[1..k -> S] : k \in 0..n}

\* '0'-'9', 'a'-'f', 'A'-'F' and the characters next to those ranges.
HexLike == (47..58) \cup (64..71) \cup (96..103)

\* '0'-'8'.
OctLike == 48..56

\* The option values tried: strings over \ x n 0 4 7 g; \x and \ followed
\* by up to two, respectively three, digit-like characters; and strings of
\* bytes that need no escape.
PreambleInputs ==
    SeqsUpTo({92, 120, 110, 48, 52, 55, 103}, MAXPREAMBLE + 2)
        \cup {<< 92, 120 >> \o h : h \in SeqsUpTo(HexLike, 2)}
        \cup {<< 92 >> \o d : d \in SeqsUpTo(OctLike, 3)}
        \cup SeqsUpTo({1, 65, 128, 255}, MAXPREAMBLE + 1)

\* Before init_tcp has built the interface: only the option value is there.
ParseInit ==
    /\ val \in PreambleInputs
    /\ parsed = FALSE
    /\ preamble = NULL
    /\ mode = "in"
    /\ persist = FALSE
    /\ deferred = FALSE
    /\ pc = [t \in Threads |-> "none"]
    /\ fd = [t \in Threads |-> NoFd]
    /\ iofd = [t \in Threads |-> NoFd]
    /\ inflight = {}
    /\ nread = 0
    /\ done = FALSE
    /\ err = "NONE"
    /\ rv = [t \in Threads |-> 0]
    /\ ret = [t \in Threads |-> "none"]
    /\ critical = 0
    /\ fixing = 0
    /\ fixer = "none"
    /\ mutex = "free"
    /\ woken = {}
    /\ nextfd = 1
    /\ open = {}
    /\ shut = {}
    /\ donewith = init_donewith
    /\ frees = 0
    /\ cleaned = {}
    /\ dead = {}
    /\ resumed = {}
    /\ pre = "none"
    /\ nb = FALSE
    /\ backlog = FALSE
    /\ sptr = "null"
    /\ got = 0
    /\ rerrno = "NONE"
    /\ writes = << >>
    /\ wire = << >>
    /\ srv = NoServer

\* Line 882: preamble = parse_preamble(opt->val).  malloc(0) for an empty
\* preamble (line 727) returns a pointer or NULL, as the C library chooses.
init_tcp_preamble ==
    /\ ~parsed
    /\ \A t \in Threads : pc[t] = "none"
    /\ parsed' = TRUE
    /\ \E malloc0 \in BOOLEAN :
         preamble' = IF parse_preamble(val).ok /\ parse_preamble(val).len = 0
                        /\ ~malloc0
                     THEN NULL
                     ELSE parse_preamble(val)
    /\ UNCHANGED << inflight, mode, deferred, persist, srv, rerrno, wire, writes, val, pre, nb,
                    backlog, sptr,
                    got, pc, fd, iofd, nread, done, err, rv, ret, critical,
                    fixing, fixer, mutex, woken, nextfd, open, shut,
                    donewith, frees, cleaned, dead, resumed >>

\* Lines 1081-1082: init_tcp, connected, calls do_preamble(ift, preamble);
\* the write calls return ns.
init_tcp_do_preamble ==
    /\ parsed
    /\ preamble.ok
    /\ pre = "none"
    /\ \A t \in Threads : pc[t] = "none"
    /\ \E ns \in WriteRuns(preamble.len) :
         /\ writes' = ns
         /\ wire' = do_preamble(preamble, preamble.len, ns)
         /\ pre' = do_preamble_status(preamble, ns)
    /\ UNCHANGED << inflight, mode, deferred, persist, srv, val, parsed, preamble, nb,
                    backlog, sptr, got, rerrno, pc, fd, iofd, nread, done,
                    err, rv, ret, critical, fixing, fixer, mutex, woken,
                    nextfd, open, shut, donewith, frees, cleaned, dead,
                    resumed >>

ParseNext ==
    \/ init_tcp_preamble
    \/ init_tcp_do_preamble

ParseSpec == ParseInit /\ [][ParseNext]_vars

-----------------------------------------------------------------------------
(* tcp_server: the acceptor of a server interface                          *)

\* The most peer threads running at once, and the value at which the two
\* event counts stop counting.
MaxPeers == 4

MaxEvents == 2

Count(n) == IF n < MaxEvents THEN n + 1 ELSE n

\* init_tcp has returned a server interface (lines 1103-1106): tcp_server
\* is its callback, the socket is bound, there is no Shared.
ServerInit ==
    /\ \E d \in {"IN", "OUT", "BOTH"} :
         srv = [pc |-> "s_listen", direction |-> d, peers |-> 0, afd |-> -1,
                newifa |-> "null", afails |-> 0, pexits |-> 0]
    /\ val = << >>
    /\ parsed = FALSE
    /\ preamble = NULL
    /\ mode = "in"
    /\ persist = FALSE
    /\ deferred = FALSE
    /\ pc = [t \in Threads |-> "none"]
    /\ fd = [t \in Threads |-> NoFd]
    /\ iofd = [t \in Threads |-> NoFd]
    /\ inflight = {}
    /\ nread = 0
    /\ done = FALSE
    /\ err = "NONE"
    /\ rv = [t \in Threads |-> 0]
    /\ ret = [t \in Threads |-> "none"]
    /\ critical = 0
    /\ fixing = 0
    /\ fixer = "none"
    /\ mutex = "free"
    /\ woken = {}
    /\ nextfd = 1
    /\ open = {}
    /\ shut = {}
    /\ donewith = init_donewith
    /\ frees = 0
    /\ cleaned = {}
    /\ dead = {}
    /\ resumed = {}
    /\ pre = "none"
    /\ nb = FALSE
    /\ backlog = FALSE
    /\ sptr = "null"
    /\ got = 0
    /\ rerrno = "NONE"
    /\ writes = << >>
    /\ wire = << >>

\* Line 605: listen(ift->fd, 5); on failure the loop is skipped and line
\* 628, iface_thread_exit, is reached.
tcp_server_listen ==
    /\ srv.pc = "s_listen"
    /\ \E ok \in BOOLEAN :
         srv' = [srv EXCEPT !.pc = IF ok THEN "s_while" ELSE "s_exit"]
    /\ UNCHANGED << inflight, mode, deferred, persist, val, parsed, preamble, pre, nb,
                    backlog, sptr, got, rerrno, wire, writes, pc, fd, iofd,
                    nread, done, err, rv, ret, critical, fixing, fixer,
                    mutex, woken, nextfd, open, shut, donewith, frees,
                    cleaned, dead, resumed >>

\* Line 606: while (ifa->direction != NONE); when it is NONE, line 628.
tcp_server_while ==
    /\ srv.pc = "s_while"
    /\ srv' = [srv EXCEPT !.pc = IF srv.direction = "NONE"
                                 THEN "s_exit" ELSE "s_accept"]
    /\ UNCHANGED << inflight, mode, deferred, persist, val, parsed, preamble, pre, nb,
                    backlog, sptr, got, rerrno, wire, writes, pc, fd, iofd,
                    nread, done, err, rv, ret, critical, fixing, fixer,
                    mutex, woken, nextfd, open, shut, donewith, frees,
                    cleaned, dead, resumed >>

\* The errno values a failed accept may leave: any of the system's (EINTR,
\* ENFILE, EMFILE, ECONNABORTED, ...).
AcceptErrnos == 1 .. 133

\* Lines 608-613: accept returns a descriptor, or fails: afd = errno,
\* logerr, continue.
tcp_server_accept ==
    /\ srv.pc = "s_accept"
    /\ \E r \in {-1, 1}, errno \in AcceptErrnos :
         srv' = IF r < 0
                THEN [srv EXCEPT !.afd = errno, !.afails = Count(@),
                                 !.pc = "s_while"]
                ELSE [srv EXCEPT !.afd = r, !.pc = "s_new"]
    /\ UNCHANGED << inflight, mode, deferred, persist, val, parsed, preamble, pre, nb,
                    backlog, sptr, got, rerrno, wire, writes, pc, fd, iofd,
                    nread, done, err, rv, ret, critical, fixing, fixer,
                    mutex, woken, nextfd, open, shut, donewith, frees,
                    cleaned, dead, resumed >>

\* Lines 615-618 and new_tcp_conn.  On failure (malloc, init_q, ifdup)
\* NULL is returned, the descriptor closed and afd = -1.  Otherwise
\* pthread_create, whose result is not looked at, starts a peer thread or
\* does not: with direction BOTH this is the pair's thread (line 584) and
\* the second pthread_create is still to come; else it is line 591 and
\* newifa is returned.
new_tcp_conn ==
    /\ srv.pc = "s_new"
    /\ \E ok \in BOOLEAN, created \in BOOLEAN :
         /\ (ok /\ created) => srv.peers < MaxPeers
         /\ srv' = IF ~ok
                   THEN [srv EXCEPT !.newifa = "null", !.afd = -1,
                                    !.pc = "s_debug"]
                   ELSE IF srv.direction = "BOTH"
                   THEN [srv EXCEPT !.pc = "s_create",
                                    !.peers = IF created THEN @ + 1 ELSE @]
                   ELSE [srv EXCEPT !.newifa = "ifa", !.pc = "s_debug",
                                    !.peers = IF created THEN @ + 1 ELSE @]
    /\ UNCHANGED << mode, deferred, persist, val, parsed, preamble, pre, nb,
                    backlog, sptr, got, rerrno, wire, writes, pc, fd, iofd,
                    inflight, nread, done, err, rv, ret, critical, fixing,
                    fixer, mutex, woken, nextfd, open, shut, donewith, frees,
                    cleaned, dead, resumed >>

\* Lines 587-592, direction BOTH: the second pthread_create, for newifa
\* itself, and the return of newifa.
new_tcp_conn_create ==
    /\ srv.pc = "s_create"
    /\ \E created \in BOOLEAN :
         /\ created => srv.peers < MaxPeers
         /\ srv' = [srv EXCEPT !.newifa = "ifa", !.pc = "s_debug",
                              !.peers = IF created THEN @ + 1 ELSE @]
    /\ UNCHANGED << mode, deferred, persist, val, parsed, preamble, pre, nb,
                    backlog, sptr, got, rerrno, wire, writes, pc, fd, iofd,
                    inflight, nread, done, err, rv, ret, critical, fixing,
                    fixer, mutex, woken, nextfd, open, shut, donewith, frees,
                    cleaned, dead, resumed >>

\* Lines 619-625: DEBUG(3, ..., newifa->id, ...).  With newifa NULL the
\* argument dereferences a null pointer if the macro evaluates it: the
\* message is skipped, or the process is killed.
tcp_server_debug ==
    /\ srv.pc = "s_debug"
    /\ \E evaluated \in BOOLEAN :
         srv' = [srv EXCEPT !.pc = IF srv.newifa = "null" /\ evaluated
                                   THEN "s_fault" ELSE "s_while"]
    /\ UNCHANGED << inflight, mode, deferred, persist, val, parsed, preamble, pre, nb,
                    backlog, sptr, got, rerrno, wire, writes, pc, fd, iofd,
                    nread, done, err, rv, ret, critical, fixing, fixer,
                    mutex, woken, nextfd, open, shut, donewith, frees,
                    cleaned, dead, resumed >>

\* A peer thread started by new_tcp_conn ends (do_read or write_tcp has
\* returned): the acceptor holds no reference to it.
peer_exit ==
    /\ srv.pc \notin {"none", "s_fault"}
    /\ srv.peers > 0
    /\ srv' = [srv EXCEPT !.peers = @ - 1, !.pexits = Count(@)]
    /\ UNCHANGED << inflight, mode, deferred, persist, val, parsed, preamble, pre, nb,
                    backlog, sptr, got, rerrno, wire, writes, pc, fd, iofd,
                    nread, done, err, rv, ret, critical, fixing, fixer,
                    mutex, woken, nextfd, open, shut, donewith, frees,
                    cleaned, dead, resumed >>

\* The host asks the interface to stop: direction = NONE.
host_stop ==
    /\ srv.pc \notin {"none", "s_fault", "s_exit"}
    /\ srv.direction # "NONE"
    /\ srv' = [srv EXCEPT !.direction = "NONE"]
    /\ UNCHANGED << inflight, mode, deferred, persist, val, parsed, preamble, pre, nb,
                    backlog, sptr, got, rerrno, wire, writes, pc, fd, iofd,
                    nread, done, err, rv, ret, critical, fixing, fixer,
                    mutex, woken, nextfd, open, shut, donewith, frees,
                    cleaned, dead, resumed >>

ServerNext ==
    \/ tcp_server_listen
    \/ tcp_server_while
    \/ tcp_server_accept
    \/ new_tcp_conn
    \/ new_tcp_conn_create
    \/ tcp_server_debug
    \/ peer_exit
    \/ host_stop

ServerSpec == ServerInit /\ [][ServerNext]_vars

-----------------------------------------------------------------------------
(* Properties                                                              *)

\* t is inside do_connect (called from reconnect, reread or delayed_connect).
InDoConnect(t) == pc[t] \in {"dc_gai", "dc_sleep", "dc_try", "dc_conn", "dc_pre", "dc_done"}

\* t has executed critical++ and not yet the matching critical--.
InRegion(t) ==
    /\ persist
    /\ \/ pc[t] \in {"r_io", "r_inio", "r_ok", "r_fail", "r_waitfix", "r_waitsib",
                     "rr_start", "rr_ret",
                     "w_io", "w_inio", "w_ok", "w_fail", "w_waitfix", "w_waitsib",
                     "rc_start", "rc_sleep", "rc_ret"}
       \/ (InDoConnect(t) /\ ret[t] = "recover")

\* C1: at most one thread is inside do_connect for the Shared record at
\* any time, whichever of reconnect, reread and delayed_connect called it.
C1_OneConnector == ~(InDoConnect("R") /\ InDoConnect("W"))

\* One thread is inside do_connect, holding the mutex, while its sibling
\* stands at a point from which it would itself go on to connect.
C1_Witness ==
    \E t \in Threads :
        /\ InDoConnect(t)
        /\ mutex = t
        /\ pc[Other(t)] \in {"r_fail", "w_fail", "dly_lock"}

\* C4: shared->critical equals the number of threads between critical++
\* and the matching critical--; so it stays within 0..2 and is 0 when no
\* thread is in the region.
C4_CriticalCount ==
    /\ critical = Cardinality({t \in Threads : InRegion(t)})
    /\ critical \in 0..2

\* Both siblings are inside the region, one of them waiting as the fixer.
C4_Witness ==
    /\ critical = 2
    /\ fixing = 1
    /\ \E t \in Threads : pc[t] \in {"r_waitfix", "w_waitfix"}

\* t is executing its recovery: reread or reconnect, do_connect included.
InRecovery(t) ==
    \/ pc[t] \in {"rr_start", "rc_start", "rc_sleep"}
    \/ (InDoConnect(t) /\ ret[t] = "recover")

\* t is between its critical-region entry and the return of its syscall.
InSyscall(t) == pc[t] \in {"r_io", "r_inio", "w_io", "w_inio"}

\* t takes a step that calls reread, reconnect or do_connect, or issues
\* read or writev.
CallsOut(t) ==
    /\ pc'[t] # pc[t]
    /\ \/ pc'[t] \in {"rr_start", "rc_start", "r_inio", "w_inio"}
       \/ (pc[t] = "dly_lock" /\ pc'[t] = "dc_gai")

\* C2: once a failed recovery has set an fd field to -1 the field keeps
\* that value, and from then on no thread calls reread, reconnect or
\* do_connect or issues read or writev.
C2_StickyTerminal ==
    [][(dead # {}) =>
          /\ \A t \in dead : fd'[t] = NoFd
          /\ \A t \in Threads : ~CallsOut(t)]_vars

\* C3: while a thread executes reread or reconnect (do_connect included),
\* its sibling is not between its critical-region entry and the return of
\* its read/writev.
C3_SiblingOutOfSyscall ==
    \A t \in Threads : InRecovery(t) => ~InSyscall(Other(t))

\* The positions of a thread that has executed fixing++ and not yet reset it.
FixerPcs ==
    {"r_waitfix", "rr_start", "rr_ret", "w_waitfix", "rc_start", "rc_sleep",
     "rc_ret", "dc_gai", "dc_sleep", "dc_try", "dc_conn", "dc_pre", "dc_done"}

\* C5: fixing is 0 or 1; while it is 1 exactly one thread, the one that
\* set it on seeing critical == 2, is the fixer and the other thread is not
\* in recovery; only a failed I/O that sees fixing == 0 and critical == 2
\* sets it; only the fixer resets it, holding t_mutex, before it unlocks.
C5_SingleFixer ==
    /\ [](/\ fixing \in {0, 1}
          /\ (fixing = 1) <=> (fixer \in Threads)
          /\ (fixing = 0) <=> (fixer = "none")
          /\ \A t \in Threads :
               (fixer = t) => /\ pc[t] \in FixerPcs
                              /\ InRegion(t)
                              /\ ~InRecovery(Other(t))
                              /\ pc[Other(t)] \notin {"r_waitfix", "w_waitfix"})
    /\ [][/\ (fixing' > fixing) =>
               /\ fixing = 0
               /\ critical = 2
               /\ \E t \in Threads : /\ pc[t] \in {"r_fail", "w_fail"}
                                     /\ pc'[t] \in {"r_waitfix", "w_waitfix"}
                                     /\ fixer' = t
          /\ (fixing' < fixing) =>
               /\ fixing' = 0
               /\ fixer \in Threads
               /\ pc[fixer] \in {"rr_ret", "rc_ret"}
               /\ pc'[fixer] \in {"r_unlock", "w_unlock"}
               /\ mutex = fixer /\ mutex' = fixer]_vars

\* A fixer that waited for its sibling is back in recovery with fixing
\* still 1 and the sibling waiting on fv for it.
C5_Witness ==
    \E t \in Threads :
        /\ fixing = 1
        /\ fixer = t
        /\ pc[t] \in {"rr_ret", "rc_ret"}
        /\ pc[Other(t)] \in {"r_waitsib", "w_waitsib"}

\* t waits on fv for the fixer, whose do_connect has just returned 0.
FixSucceeded(t) ==
    /\ pc[t] \in {"r_waitsib", "w_waitsib"}
    /\ fixer = Other(t)
    /\ pc[Other(t)] = "dc_done"
    /\ ret[Other(t)] = "recover"
    /\ rv[Other(t)] = 0

\* C6: a thread that waits on fv for a fixer whose do_connect succeeded is
\* eventually woken and decrements critical; and a thread released from
\* that wait issues its next read/writev on the descriptor the fixer
\* installed: its own fd field equals the fixer's, an open socket.
C6_WaiterResumes ==
    /\ \A t \in Threads : FixSucceeded(t) ~> (t \in resumed /\ ~InRegion(t))
    /\ [](\A t \in Threads :
            (t \in resumed /\ pc[t] \in {"r_io", "w_io"}) =>
                /\ fd[t] = fd[Other(t)]
                /\ fd[t] \in open)

\* A released waiter is about to issue its next I/O on a descriptor that
\* a reconnect installed after init_tcp's.
C6_Witness ==
    \E t \in Threads :
        /\ t \in resumed
        /\ pc[t] \in {"r_io", "w_io"}
        /\ fd[t] = fd[Other(t)]
        /\ fd[t] > 1
        /\ ~deferred

\* C7: after a recovery has failed, both sibling threads eventually leave
\* their I/O loops; a thread that stays in a read, writev or next_senblk
\* that nothing ends is not held against the claim.
C7_BothTerminate ==
    (dead # {}) ~>
        [](\A t \in Threads : Started(t) => (pc[t] = "exited" \/ Blocked(t)))

\* The writer is about to release t_mutex after a failed reconnect.
WriterFailed == pc["W"] = "w_unlock" /\ rv["W"] < 0 /\ HasPair

\* C8, as specified: when the writer's recovery has failed, both fd fields are
\* -1 at the moment the writer releases t_mutex.
C8_BothFdsDead ==
    WriterFailed => (fd["W"] = NoFd /\ fd["R"] = NoFd)

\* C9 (with F_PERSIST): Shared is freed at most once; of a pair, the first
\* cleanup_tcp leaves it allocated and the second frees it; an unpaired
\* interface's single cleanup_tcp frees it; once freed, no thread of the
\* interface is still running.
C9_SharedFreedOnce ==
    /\ frees <= 1
    /\ (persist /\ HasPair /\ Cardinality(cleaned) = 1) => frees = 0
    /\ (persist /\ HasPair /\ cleaned = Threads) => frees = 1
    /\ (persist /\ ~HasPair /\ cleaned # {}) => frees = 1
    /\ frees = 1 => \A t \in Threads : Started(t) => pc[t] = "exited"

\* Both siblings of a pair have been cleaned up and Shared was freed.
C9_Witness ==
    HasPair /\ cleaned = Threads /\ frees = 1

\* The retry delays: mysleep in do_connect and in reconnect.
SleepPcs == {"dc_sleep", "rc_sleep"}

C11_SleepUnlessEagain ==
    [][/\ (pc["W"] = "rc_start" /\ pc'["W"] # "rc_start") =>
             pc'["W"] = (IF err = "EAGAIN" THEN "dc_gai" ELSE "rc_sleep")
       /\ (pc["W"] = "rc_sleep" /\ pc'["W"] # "rc_sleep") =>
             (pc'["W"] = "dc_gai" /\ ret'["W"] = "recover")]_vars

\* A writev failed with an error other than EAGAIN and the writer is in
\* reconnect's mysleep.
C11_Witness ==
    pc["W"] = "rc_sleep" /\ err # "EAGAIN" /\ ret["W"] # "recover"

\* C12: when reread's non-blocking read returns n > 0, reread returns n
\* without entering do_connect, no fd field and no socket changes, the
\* socket is blocking again, and read_tcp hands the n bytes to its caller.
C12_RereadData ==
    /\ [](got > 0 => (pc["R"] \in {"rr_ret", "r_unlock"} /\ nread = got /\ ~nb))
    /\ [][/\ (pc["R"] = "rr_start" /\ got' > 0) =>
                /\ pc'["R"] = "rr_ret"
                /\ UNCHANGED << fd, nextfd, open, shut >>
          /\ (pc["R"] = "rr_ret" /\ got > 0 /\ pc'["R"] # "rr_ret") =>
                (pc'["R"] = "r_unlock" /\ UNCHANGED << fd, nread >>)
          /\ (pc["R"] = "r_unlock" /\ got > 0 /\ pc'["R"] # "r_unlock") =>
                (pc'["R"] = "r_ret" /\ nread' = nread /\ fd' = fd)]_vars

\* reread has read data and read_tcp is about to return it.
C12_Witness ==
    pc["R"] = "r_unlock" /\ got > 0 /\ nread = got /\ ~nb /\ fd["R"] \in open

\* C13: when reconnect returns, the queue has been flushed if and only if
\* do_connect succeeded; this is so until the writer unlocks t_mutex, and
\* the writer never takes a message from a queue that still holds what was
\* queued before the new connection.
C13_FlushOnReconnect ==
    /\ [](pc["W"] \in {"rc_ret", "w_unlock"} => (backlog <=> rv["W"] < 0))
    /\ [][(pc["W"] = "w_next" /\ sptr' = "msg") => ~backlog]_vars

\* reconnect has returned 0 and the queue was flushed.
C13_Witness ==
    pc["W"] = "rc_ret" /\ rv["W"] = 0 /\ ~backlog /\ fd["W"] \in open

\* C14 (with F_PERSIST and a preamble): every do_preamble call that
\* returns 0 has written the preamble, and no thread is inside read or
\* writev on the newest socket before do_preamble was called for it.
C14_PreambleFirst ==
    (persist /\ preamble.ok) =>
        /\ pre # "bad"
        /\ \A t \in Threads :
              (pc[t] \in {"r_inio", "w_inio"} /\ iofd[t] = nextfd - 1) => pre # "due"

\* The hex digits, and the value of one.
IsHexDigit(c) == (c \in 48..57) \/ (c \in 97..102) \/ (c \in 65..70)

HexValue(c) == IF c <= 57 THEN c - 48 ELSE IF c >= 97 THEN c - 87 ELSE c - 55

\* C15: parse_preamble on \xHH, H hex digits of either case, gives the one
\* byte 0xHH; a \x whose next two characters are not both hex digits (or
\* are missing) makes it fail.
C15_HexEscape ==
    (parsed /\ Len(val) >= 2 /\ val[1] = 92 /\ val[2] = 120) =>
        /\ (Len(val) = 4 /\ IsHexDigit(val[3]) /\ IsHexDigit(val[4])) =>
              preamble = [ok |-> TRUE, len |-> 1,
                          string |-> << 16 * HexValue(val[3]) + HexValue(val[4]) >>]
        /\ (Len(val) < 4 \/ ~IsHexDigit(At(val, 3)) \/ ~IsHexDigit(At(val, 4))) =>
              preamble = NULL

\* "\xFa" was parsed to the byte 250.
C15_Witness ==
    parsed /\ val = << 92, 120, 70, 97 >> /\ preamble.ok /\ preamble.string = << 250 >>

\* C16: for three octal digits NNN, parse_preamble on \NNN fails or gives
\* the one byte whose value is NNN; "\400" fails.
C16_OctalExact ==
    (parsed /\ Len(val) = 4 /\ val[1] = 92
            /\ \A i \in 2..4 : val[i] \in 48..55) =>
        \/ preamble = NULL
        \/ /\ val # << 92, 52, 48, 48 >>
           /\ preamble.len = 1
           /\ preamble.string[1] = 64 * (val[2] - 48) + 8 * (val[3] - 48) + (val[4] - 48)

\* C17: an input that decodes to MAXPREAMBLE bytes or more is rejected; a
\* legal input that decodes to MAXPREAMBLE - 1 bytes is accepted, with len
\* the number of decoded bytes.  (The decoding is that of a prebuf too big
\* to fill.)
C17_LengthCap ==
    parsed =>
        LET decoded == parse_with_cap(val, Len(val) + 1)
        IN  /\ (decoded.ok /\ decoded.len >= MAXPREAMBLE) => preamble = NULL
            /\ (decoded.ok /\ decoded.len = MAXPREAMBLE - 1) =>
                  /\ preamble.ok
                  /\ preamble.len = MAXPREAMBLE - 1
                  /\ preamble.string = decoded.string

\* An input with an escape that decodes to exactly MAXPREAMBLE bytes was
\* rejected.
C17_Witness ==
    /\ parsed
    /\ parse_with_cap(val, Len(val) + 1).ok
    /\ parse_with_cap(val, Len(val) + 1).len = MAXPREAMBLE
    /\ Len(val) > MAXPREAMBLE
    /\ preamble = NULL

\* val holds no backslash.
Unescaped == \A i \in 1..Len(val) : val[i] # Backslash

\* C18, as specified, for a string that is not empty: a string of at most
\* MAXPREAMBLE bytes that need no escape parses to itself.
C18_RoundTripToCap ==
    (parsed /\ Unescaped /\ Len(val) >= 1 /\ Len(val) <= MAXPREAMBLE) =>
        preamble = [ok |-> TRUE, len |-> Len(val), string |-> val]

\* C18: a string of 1 to MAXPREAMBLE - 1 bytes that need no escape parses
\* to itself: same length, same bytes.
C18_RoundTrip ==
    (parsed /\ Unescaped /\ Len(val) >= 1 /\ Len(val) < MAXPREAMBLE) =>
        preamble = [ok |-> TRUE, len |-> Len(val), string |-> val]

\* A string of MAXPREAMBLE - 1 bytes, one of them 255, came back unchanged.
C18_Witness ==
    /\ parsed
    /\ Unescaped
    /\ Len(val) = MAXPREAMBLE - 1
    /\ \E i \in 1..Len(val) : val[i] = 255
    /\ preamble.ok
    /\ preamble.string = val

\* The positions of the recovery code and of do_connect.
RecoveryPcs ==
    {"r_ok", "r_fail", "r_waitfix", "r_waitsib", "rr_start", "rr_ret",
     "r_unlock", "w_ok", "w_fail", "w_waitfix", "w_waitsib", "rc_start",
     "rc_sleep", "rc_ret", "w_unlock", "dly_lock", "dc_gai", "dc_sleep",
     "dc_try", "dc_conn", "dc_pre", "dc_done"}

\* C19: without F_PERSIST, read_tcp goes from its entry to one read and
\* from the read to its return with the read's result, whatever it is;
\* write_tcp frees the message after every writev and leaves its loop on
\* the first failed one; no thread is ever in recovery or in do_connect,
\* no socket is opened, and nothing of Shared is read or written.
C19_NonPersistTerminal ==
    /\ [](~persist => \A t \in Threads : pc[t] \notin RecoveryPcs)
    /\ [][~persist =>
            /\ UNCHANGED << mutex, critical, fixing, fixer, woken, donewith,
                            frees, fd, nextfd, done >>
            /\ (pc["R"] = "r_top" /\ pc'["R"] # "r_top") => pc'["R"] = "r_io"
            /\ (pc["R"] = "r_io" /\ pc'["R"] # "r_io") => pc'["R"] = "r_inio"
            /\ (pc["R"] = "r_inio" /\ pc'["R"] # "r_inio") => pc'["R"] = "r_ret"
            /\ (pc["R"] = "r_ret" /\ nread <= 0 /\ pc'["R"] # "r_ret") =>
                   pc'["R"] = "exited"
            /\ (pc["W"] = "w_inio" /\ pc'["W"] # "w_inio") =>
                   /\ sptr' = "null"
                   /\ pc'["W"] = (IF err' # err THEN "exited" ELSE "w_next")]_vars

\* Without F_PERSIST: read_tcp returned 0 or -1 and the reader has left,
\* and the writer has left after a failed writev, the socket still being
\* the one init_tcp connected.
C19_Witness ==
    /\ ~persist /\ mode = "both"
    /\ pc["R"] = "exited" /\ nread <= 0
    /\ pc["W"] = "exited" /\ err # "NONE" /\ sptr = "null"
    /\ nextfd = 2 /\ fd["W"] = 1

\* C20: after a failed initial connect with instant-persist, both callbacks
\* are delayed_connect: a started thread locks t_mutex, calls do_connect
\* with it locked, unlocks when do_connect returns, and then enters its
\* loop (the reader do_read, the writer write_tcp) if do_connect returned
\* 0, or exits without having done any I/O if it returned -1.
C20_DelayedConnect ==
    [][\A t \in Threads :
        /\ (deferred /\ pc[t] = "start" /\ pc'[t] # "start") => pc'[t] = "dly_lock"
        /\ (pc[t] = "dly_lock" /\ pc'[t] # "dly_lock") =>
              /\ mutex = "free" /\ mutex' = t
              /\ pc'[t] = "dc_gai" /\ ret'[t] = "delayed"
        /\ (pc[t] = "dc_done" /\ ret[t] = "delayed" /\ pc'[t] # "dc_done") =>
              /\ mutex' # t
              /\ IF rv[t] < 0
                 THEN pc'[t] = "exited" /\ iofd'[t] = NoFd
                 ELSE pc'[t] = (IF t = "R" THEN "r_top" ELSE "w_next")]_vars

\* One thread's delayed connect failed and it left without I/O, while its
\* sibling's succeeded and it is reading or writing.
C20_Witness ==
    \E t \in Threads :
        /\ deferred
        /\ pc[t] = "exited" /\ rv[t] < 0 /\ iofd[t] = NoFd
        /\ pc[Other(t)] \in {"r_inio", "w_inio"} /\ iofd[Other(t)] \in open

\* A step stores another socket in an fd field that held an open one.
ReplacesFd ==
    \E x \in Threads : fd[x] \in open /\ fd'[x] # fd[x] /\ fd'[x] \in open'

\* C22, as specified: a valid descriptor in an fd field is replaced by a
\* new one only in a step of the thread that holds fixing = 1.
C22_OnlyFixerReplaces ==
    [][ReplacesFd =>
         \E t \in Threads : /\ pc[t] \in {"dc_try", "dc_conn"} /\ pc'[t] # pc[t]
                            /\ fixing = 1 /\ fixer = t]_vars

\* C22: a socket is stored in an fd field only by a thread inside
\* do_connect: the socket it has just created, into its own field, and
\* once connected into its pair's; if fixing is 1 at that moment, that
\* thread is the one that set it.
C22_ReplacedInDoConnect ==
    [][(\E x \in Threads : fd'[x] # fd[x] /\ fd'[x] \in open') =>
         \E t \in Threads : /\ pc[t] \in {"dc_try", "dc_conn"} /\ pc'[t] # pc[t]
                            /\ ret[t] \in {"recover", "delayed"}
                            /\ fd'[t] \in open'
                            /\ (pc[t] = "dc_try") =>
                                  (fd'[t] \notin open /\ fd'[Other(t)] = fd[Other(t)])
                            /\ (pc[t] = "dc_conn") =>
                                  (fd'[t] = fd[t] /\ fd'[Other(t)] = fd[t])
                            /\ (fixing = 1 => fixer = t)]_vars

\* The fixer, having set fixing on critical == 2, has replaced the socket
\* both fd fields held.
C22_Witness ==
    \E t \in Threads :
        /\ fixing = 1 /\ fixer = t
        /\ pc[t] = "dc_done" /\ rv[t] = 0
        /\ HasPair /\ ~deferred
        /\ fd[t] = 2 /\ fd[Other(t)] = 2 /\ 2 \in open

\* reread's non-blocking read has just returned without data.
RereadNoData ==
    pc["R"] = "rr_start" /\ pc'["R"] # "rr_start" /\ fd["R"] \in open /\ got' = 0

\* C23, as specified: whenever reread's non-blocking read yields no data,
\* whatever errno is, do_connect is called before reread returns.
C23_NoDataReconnects ==
    [][RereadNoData => pc'["R"] = "dc_gai"]_vars

\* C23: when reread's non-blocking read returns 0, or -1 with an errno
\* other than EWOULDBLOCK/EAGAIN, do_connect is called before reread
\* returns; when it returns -1 with EWOULDBLOCK/EAGAIN, reread returns 0
\* without do_connect, the socket blocking again and the fd fields as
\* they were.
C23_RereadReconnects ==
    [][RereadNoData =>
         IF rerrno' = "EAGAIN"
         THEN /\ pc'["R"] = "rr_ret" /\ nread' = 0 /\ ~nb'
              /\ UNCHANGED << fd, open, nextfd >>
         ELSE /\ pc'["R"] = "dc_gai" /\ ret'["R"] = "recover"]_vars

\* reread's read failed with an errno other than EWOULDBLOCK/EAGAIN and
\* the reader is in do_connect.
C23_Witness ==
    pc["R"] = "dc_gai" /\ ret["R"] = "recover" /\ rerrno = "OTHER"

\* C24: do_connect returns 0 only from a pass in which a connect succeeded
\* (a socket not open before is then in its caller's fd field), and -1 only
\* from a failed getaddrinfo; a transient getaddrinfo error and a pass in
\* which nothing connected both lead into mysleep, and from mysleep back
\* to getaddrinfo.
C24_DoConnectReturns ==
    [][\A t \in Threads :
        /\ (pc[t] = "dc_gai" /\ pc'[t] # "dc_gai") =>
              /\ pc'[t] \in {"dc_try", "dc_sleep", "dc_done"}
              /\ (pc'[t] = "dc_done") => rv'[t] = -1
        /\ (pc[t] = "dc_sleep" /\ pc'[t] # "dc_sleep") => pc'[t] = "dc_gai"
        /\ (pc[t] = "dc_try" /\ pc'[t] # "dc_try") =>
              IF fd'[t] \in open' \ open
              THEN pc'[t] = "dc_conn"
              ELSE pc'[t] = "dc_sleep" /\ fd'[t] = NoFd /\ open' = open
        /\ (pc[t] = "dc_conn" /\ pc'[t] # "dc_conn") =>
              IF fd[t] \in open'
              THEN pc'[t] \in {"dc_pre", "dc_done"} /\ rv'[t] = 0 /\ fd'[t] = fd[t]
              ELSE pc'[t] \in {"dc_try", "dc_sleep"} /\ fd'[t] = fd[t]
        /\ (pc[t] = "dc_pre" /\ pc'[t] # "dc_pre") =>
              (pc'[t] = "dc_done" /\ rv'[t] = 0)
        /\ (pc'[t] = "dc_done" /\ pc[t] # "dc_done") =>
              \/ pc[t] = "dc_gai" /\ rv'[t] = -1
              \/ pc[t] \in {"dc_conn", "dc_pre"} /\ rv'[t] = 0]_vars

\* In a recovery, a pass in which connect was refused has left a closed
\* descriptor in the fd field and do_connect is in mysleep.
C24_Witness ==
    \E t \in Threads :
        /\ ~deferred /\ pc[t] = "dc_sleep" /\ ret[t] = "recover"
        /\ fd[t] > 1 /\ fd[t] \notin open

\* C25: when do_preamble returns 0 the bytes the descriptor accepted, write
\* after write, are the preamble, each byte once and in order; it returns
\* -1 if and only if a write failed.
C25_PreambleVerbatim ==
    (parsed /\ pre # "none") =>
        /\ (pre = "failed") <=> (\E i \in 1..Len(writes) : writes[i] < 0)
        /\ (pre # "failed") => wire = preamble.string

\* The positions of write_tcp between next_senblk and senblk_free.
HoldsMessage ==
    \/ pc["W"] \in {"w_top", "w_io", "w_inio", "w_ok", "w_fail", "w_waitfix",
                    "w_waitsib", "rc_start", "rc_sleep", "rc_ret", "w_unlock"}
    \/ (InDoConnect("W") /\ ret["W"] = "recover")

\* C27: write_tcp holds a message exactly from next_senblk to the one
\* senblk_free that ends the iteration, on every path; writev is called
\* only on a message just taken from the queue, and after writev the
\* writer comes to next_senblk or leaves, never back to writev with the
\* same message.
C27_MessageOnce ==
    /\ [](sptr = "msg" <=> HoldsMessage)
    /\ [][/\ (pc'["W"] = "w_top" /\ pc["W"] # "w_top") =>
                (pc["W"] = "w_next" /\ sptr = "null" /\ sptr' = "msg")
          /\ (pc'["W"] = "w_io" /\ pc["W"] # "w_io") => pc["W"] = "w_top"
          /\ (pc'["W"] = "w_inio" /\ pc["W"] # "w_inio") => pc["W"] = "w_io"
          /\ (sptr = "msg" /\ sptr' = "null") =>
                pc'["W"] \in {"w_next", "exited"}]_vars

\* The writer, as fixer, has reconnected after a failed writev and is
\* about to free the message it failed to write.
C27_Witness ==
    /\ pc["W"] = "w_unlock" /\ sptr = "msg" /\ rv["W"] = 0 /\ ~done
    /\ err # "NONE" /\ fd["W"] \in open /\ fd["W"] # iofd["W"]

\* t is blocked in pthread_cond_wait on fv and no signal is pending for it.
BlockedOnFv(t) == pc[t] \in WaitPcs /\ t \notin woken

\* C26: a thread blocked on fv always has a sibling left that will signal:
\* the sibling has not left its loop and is not itself blocked on fv.
C26_NoLostWaiter ==
    \A t \in Threads :
        BlockedOnFv(t) =>
            /\ pc[Other(t)] # "exited"
            /\ ~BlockedOnFv(Other(t))

\* C28: on a pair that starts in delayed_connect, a sibling's
\* delayed_connect connects a socket only if the other sibling has not
\* installed one, and only while the other sibling is outside its I/O
\* critical region.
C28_OneInitialConnect ==
    [][\A t \in Threads :
        (/\ HasPair /\ deferred
         /\ pc[t] = "dc_conn" /\ ret[t] = "delayed"
         /\ pc'[t] \in {"dc_pre", "dc_done"}) =>
            /\ fd[Other(t)] \notin open
            /\ ~InRegion(Other(t))]_vars

\* C29: at most one socket of the interface is open at any time, and none
\* is left open once every thread of the interface has run cleanup_tcp.
C29_NoDescriptorLeak ==
    /\ Cardinality(open) <= 1
    /\ (\A t \in Threads : Started(t) => t \in cleaned) => open = {}

\* C21: a failed accept takes the acceptor back to the loop test, the end
\* of a peer thread does not move it, the loop test with a direction other
\* than NONE goes on to accept, and the acceptor leaves the loop only
\* through the loop test reading direction NONE.
C21_AcceptorKeepsAccepting ==
    [][/\ (srv.pc = "s_accept" /\ srv'.afails # srv.afails) => srv'.pc = "s_while"
       /\ (srv.pc = "s_accept" /\ srv'.pc # "s_accept") =>
             /\ srv'.pc \in {"s_while", "s_new"}
             /\ srv'.pc = "s_new" => srv'.afails = srv.afails
       /\ (srv'.peers < srv.peers) => srv'.pc = srv.pc
       /\ (srv.pc = "s_while" /\ srv'.pc # "s_while") =>
             srv'.pc = (IF srv.direction = "NONE" THEN "s_exit" ELSE "s_accept")
       /\ (/\ srv.pc \in {"s_while", "s_accept", "s_new", "s_create", "s_debug"}
           /\ srv'.pc \notin {"s_while", "s_accept", "s_new", "s_create", "s_debug"}) =>
             (srv.pc = "s_while" /\ srv.direction = "NONE")]_vars

=============================================================================
